---- MODULE Spec2Model ----
(***************************************************************************)
(* A model of rag_system.py: the LRU/TTL cache (LRUCache), the semantic    *)
(* and keyword retrievers, the hybrid retriever with score fusion and      *)
(* reranking, and the index lifecycle of the facade RAGRetriever.          *)
(*                                                                         *)
(* Scores are fixed-point integers: a similarity s is held as 100*s, a     *)
(* BM25 score b as 100*b, a weight w as 10*w and a fused score f as        *)
(* 10000*f, so that the code's float arithmetic is exact in the model.     *)
(***************************************************************************)
EXTENDS Integers, Sequences, FiniteSets, TLC

\* ------------------------------------------------------------------ bounds

MaxTime == 3
TTL == 2
MaxStepsLRU == 5
MaxSteps == 4

\* ----------------------------------------------------------------- helpers

Min(a, b) == IF a < b THEN a ELSE b

Max(a, b) == IF a > b THEN a ELSE b

Range(s) == {s[i] : i \in 1..Len(s)}

\* s[:n] of a Python list
Take(s, n) == SubSeq(s, 1, Min(n, Len(s)))

\* The position of the first occurrence of x in s (0 when absent).
IndexOf(s, x) ==
    IF x \in Range(s) THEN CHOOSE i \in 1..Len(s) : s[i] = x /\ \A j \in 1..(i - 1) : s[j] # x
    ELSE 0

\* list.remove(x): drops the first occurrence of x (the caller checks x is there).
ListRemove(s, x) ==
    LET i == IndexOf(s, x)
    IN IF i = 0 THEN s ELSE SubSeq(s, 1, i - 1) \o SubSeq(s, i + 1, Len(s))

Restrict(f, S) == [x \in S |-> f[x]]

\* ----------------------------------------------------------------- inputs

Queries == {"qa", "qb"}

\* The top_k values the operations are called with; 0 stands for None where None is allowed.
TopKs == {1, 2}

\* hash(query) of _make_key
HashOf(q) == CASE q = "qa" -> 1 [] q = "qb" -> 2 [] OTHER -> 3

\* LRUCache._make_key: f"{hash(query)}:{top_k}"
MakeKey(query, top_k) == <<HashOf(query), top_k>>

Keys == {MakeKey(q, k) : q \in Queries, k \in TopKs}

\* --------------------------------------------------------------- LRUCache

\* LRUCache.__init__
NewCache(capacity, ttl_seconds) ==
    [capacity |-> capacity, ttl |-> ttl_seconds, cache |-> <<>>, order |-> <<>>,
     hits |-> 0, misses |-> 0, evictions |-> 0]

\* A get whose hit leaves the recency order alone.
LRUGetNoTouch(c, query, top_k, t) ==
    LET key == MakeKey(query, top_k)
    IN IF key \in DOMAIN c.cache /\ t - c.cache[key].ts < c.ttl
       THEN [c |-> [c EXCEPT !.hits = @ + 1], ret |-> <<c.cache[key].data>>, err |-> "none"]
       ELSE [c |-> [c EXCEPT !.cache = Restrict(c.cache, DOMAIN c.cache \ {key}),
                             !.order = ListRemove(c.order, key),
                             !.misses = @ + 1],
             ret |-> <<>>, err |-> "none"]

\* A get that serves an entry whose age equals the TTL.
LRUGetLateExpiry(c, query, top_k, t) ==
    LET key == MakeKey(query, top_k)
    IN IF key \in DOMAIN c.cache /\ t - c.cache[key].ts <= c.ttl
       THEN [c |-> [c EXCEPT !.order = Append(ListRemove(c.order, key), key), !.hits = @ + 1],
             ret |-> <<c.cache[key].data>>, err |-> "none"]
       ELSE [c |-> [c EXCEPT !.cache = Restrict(c.cache, DOMAIN c.cache \ {key}),
                             !.order = ListRemove(c.order, key),
                             !.misses = @ + 1],
             ret |-> <<>>, err |-> "none"]

\* LRUCache.get at time t. ret is <<data>> on a hit and <<>> for None; err is the
\* exception that left the method ("none" on a normal return).
LRUGet(c, query, top_k, t) ==
    LET key == MakeKey(query, top_k)
    IN IF key \in DOMAIN c.cache
       THEN IF t - c.cache[key].ts < c.ttl
            THEN IF key \in Range(c.order)
                 THEN [c |-> [c EXCEPT !.order = Append(ListRemove(c.order, key), key),
                                       !.hits = @ + 1],
                       ret |-> <<c.cache[key].data>>, err |-> "none"]
                 ELSE [c |-> c, ret |-> <<>>, err |-> "ValueError"]
            ELSE IF key \in Range(c.order)
                 THEN [c |-> [c EXCEPT !.cache = Restrict(c.cache, DOMAIN c.cache \ {key}),
                                       !.order = ListRemove(c.order, key),
                                       !.misses = @ + 1],
                       ret |-> <<>>, err |-> "none"]
                 ELSE [c |-> [c EXCEPT !.cache = Restrict(c.cache, DOMAIN c.cache \ {key})],
                       ret |-> <<>>, err |-> "ValueError"]
       ELSE [c |-> [c EXCEPT !.misses = @ + 1], ret |-> <<>>, err |-> "none"]

\* A set that evicts only once the order is longer than the capacity.
LRUSetLateEvict(c, query, top_k, value, t) ==
    LET key == MakeKey(query, top_k)
        entry == [data |-> value, ts |-> t]
        put(d) == [k \in DOMAIN d \cup {key} |-> IF k = key THEN entry ELSE d[k]]
    IN IF key \in DOMAIN c.cache
       THEN [c |-> [c EXCEPT !.cache = put(c.cache),
                             !.order = Append(ListRemove(c.order, key), key)],
             err |-> "none"]
       ELSE IF Len(c.order) > c.capacity
            THEN LET oldest_key == Head(c.order)
                 IN [c |-> [c EXCEPT !.cache = put(Restrict(c.cache, DOMAIN c.cache \ {oldest_key})),
                                     !.order = Append(Tail(c.order), key),
                                     !.evictions = @ + 1],
                     err |-> "none"]
            ELSE [c |-> [c EXCEPT !.cache = put(c.cache), !.order = Append(c.order, key)],
                  err |-> "none"]

\* LRUCache.set at time t.
LRUSet(c, query, top_k, value, t) ==
    LET key == MakeKey(query, top_k)
        entry == [data |-> value, ts |-> t]
        put(d) == [k \in DOMAIN d \cup {key} |-> IF k = key THEN entry ELSE d[k]]
    IN IF key \in DOMAIN c.cache
       THEN IF key \in Range(c.order)
            THEN [c |-> [c EXCEPT !.cache = put(c.cache),
                                  !.order = Append(ListRemove(c.order, key), key)],
                  err |-> "none"]
            ELSE [c |-> c, err |-> "ValueError"]
       ELSE IF Len(c.order) >= c.capacity
            THEN IF c.order = <<>>
                 THEN [c |-> c, err |-> "IndexError"]
                 ELSE LET oldest_key == Head(c.order)
                          popped == [c EXCEPT !.order = Tail(c.order)]
                          evicted ==
                              IF oldest_key \in DOMAIN c.cache
                              THEN [popped EXCEPT
                                       !.cache = Restrict(c.cache, DOMAIN c.cache \ {oldest_key}),
                                       !.evictions = @ + 1]
                              ELSE popped
                      IN [c |-> [evicted EXCEPT !.cache = put(evicted.cache),
                                                !.order = Append(evicted.order, key)],
                          err |-> "none"]
            ELSE [c |-> [c EXCEPT !.cache = put(c.cache), !.order = Append(c.order, key)],
                  err |-> "none"]

\* LRUCache.clear
LRUClear(c) ==
    [c EXCEPT !.cache = <<>>, !.order = <<>>, !.hits = 0, !.misses = 0, !.evictions = 0]

RECURSIVE RemoveAll(_, _)
\* The loop of invalidate over keys_to_remove: each key leaves the order once.
RemoveAll(order, keys) ==
    IF keys = {} THEN order
    ELSE LET k == CHOOSE x \in keys : TRUE
         IN RemoveAll(ListRemove(order, k), keys \ {k})

\* LRUCache.invalidate; top_k = 0 stands for top_k=None (every top_k of the query).
LRUInvalidate(c, query, top_k) ==
    LET keys_to_remove ==
            IF top_k = 0
            THEN {k \in DOMAIN c.cache : k[1] = HashOf(query)}
            ELSE {MakeKey(query, top_k)} \cap DOMAIN c.cache
    IN [c EXCEPT !.cache = Restrict(c.cache, DOMAIN c.cache \ keys_to_remove),
                 !.order = RemoveAll(c.order, keys_to_remove)]

\* ------------------------------------------------------- corpus and scores

\* Chunk ids. A chunk is known by its id: its content, source and ordinal are fixed
\* by the id (TextChunker._create_chunk derives the id from them).
Chunks == {"c1", "c2", "c3"}

\* The chunk lists _build_index can collect from the source documents.
Corpora == {<<>>, <<"c2">>, <<"c1", "c2", "c3">>}

\* The inner product of the query's and the chunk's embeddings, times 100.
Similarity(q, c) ==
    CASE q = "qa" /\ c = "c1" -> 100
      [] q = "qa" /\ c = "c2" -> 20
      [] q = "qa" /\ c = "c3" -> 60
      [] q = "qb" /\ c = "c1" -> 40
      [] q = "qb" /\ c = "c2" -> 90
      [] q = "qb" /\ c = "c3" -> 95
      [] OTHER -> -50

\* The BM25 score KeywordRetriever.retrieve sums for the chunk, times 100 (0: no
\* query term of the IDF table occurs in the chunk).
Bm25(q, c) ==
    CASE q = "qa" /\ c = "c1" -> 1000
      [] q = "qa" /\ c = "c2" -> 500
      [] q = "qa" /\ c = "c3" -> 0
      [] q = "qb" /\ c = "c1" -> 0
      [] q = "qb" /\ c = "c2" -> 1200
      [] OTHER -> 300

\* The cross-encoder's score of (query, chunk content).
RerankScore(q, c) == CASE c = "c1" -> 1 [] c = "c2" -> 3 [] OTHER -> 2

\* score_threshold=0.3, the default of SemanticRetriever.retrieve
SemanticThreshold == 30

\* bm25_max_score=10.0, the default of KeywordRetriever.__init__
Bm25MaxScore == 1000

\* 'score_threshold': 0.25 of the default configuration, on the fused scale
ScoreThreshold == 2500

\* 'semantic_weight': 0.7 and 'keyword_weight': 0.3 of the default configuration
SemanticWeight == 7

KeywordWeight == 3

\* cache_size of the configuration
CacheSize == 2

\* ---------------------------------------------------------------- sorting

\* x goes behind every element whose key is at least its own: list.sort(reverse=True)
\* is stable, and so is this.
InsertDesc(sorted, x) ==
    LET n == Cardinality({i \in 1..Len(sorted) : sorted[i].key >= x.key})
    IN SubSeq(sorted, 1, n) \o <<x>> \o SubSeq(sorted, n + 1, Len(sorted))

RECURSIVE SortDescFrom(_, _)
SortDescFrom(sorted, rest) ==
    IF rest = <<>> THEN sorted ELSE SortDescFrom(InsertDesc(sorted, Head(rest)), Tail(rest))

\* A sort that puts the smallest key first.
SortAscending(keyed) ==
    LET d == SortDescFrom(<<>>, keyed) IN [i \in 1..Len(d) |-> d[Len(d) + 1 - i]]

\* sort(key=..., reverse=True) of a list of [key, item] pairs
SortDesc(keyed) == SortDescFrom(<<>>, keyed)

Items(keyed) == [i \in 1..Len(keyed) |-> keyed[i].item]

RECURSIVE UniqueById(_, _)
\* The first result of each id, in order (the seen-set loops of the code).
UniqueById(results, seen) ==
    IF results = <<>> THEN <<>>
    ELSE IF Head(results).id \in seen THEN UniqueById(Tail(results), seen)
    ELSE <<Head(results)>> \o UniqueById(Tail(results), seen \cup {Head(results).id})

\* ------------------------------------------------------------- the parts

AbsentFile == [st |-> "absent", data |-> <<>>]

OkFile(data) == [st |-> "ok", data |-> data]

\* The index directory before anything was built.
NoDisk == [dir |-> FALSE, chunks |-> AbsentFile, faiss |-> AbsentFile, bm25 |-> AbsentFile]

\* SemanticRetriever.__init__; present is FALSE when HybridRetriever holds None.
NewSemantic(present) ==
    [present |-> present, model |-> FALSE, documents |-> <<>>, chunk_map |-> <<>>,
     index_cache |-> <<>>, index_path |-> "None", cache |-> NewCache(CacheSize, TTL)]

\* KeywordRetriever.__init__
NewKeyword == [documents |-> <<>>, doc_map |-> <<>>]

\* Reranker.__init__: the constructor calls _load_model, which loads the
\* cross-encoder when it is available; present is FALSE when HybridRetriever holds
\* None.
NewReranker(present, available) == [present |-> present, model |-> present /\ available]

\* HybridRetriever.__init__ and RAGRetriever.__init__ (eager_load false)
NewWorld(cfg, disk) ==
    [sem |-> NewSemantic(cfg.semantic), kw |-> NewKeyword,
     reranker |-> NewReranker(cfg.use_rerank, cfg.reranker_model),
     index_built |-> FALSE, cache |-> NewCache(CacheSize, TTL),
     initialized |-> FALSE, disk |-> disk]

\* What one call did, for the record of the last operation.
NoTrace == [ev |-> <<>>, semK |-> 0, kwK |-> 0, semRes |-> <<>>, kwRes |-> <<>>, smap |-> <<>>]

Ev(tr, e) == [tr EXCEPT !.ev = Append(@, e)]

\* ------------------------------------------------------------ index build

\* SemanticRetriever.build_index, for a non-empty chunk list
SemanticBuild(w, chunks) ==
    [w EXCEPT !.sem.model = TRUE,
              !.disk.faiss = OkFile(chunks),
              !.sem.documents = chunks,
              !.sem.chunk_map = chunks,
              !.disk.chunks = OkFile(chunks)]

\* KeywordRetriever.build_index, for a non-empty chunk list
KeywordBuild(w, chunks) ==
    [w EXCEPT !.kw.documents = chunks, !.kw.doc_map = chunks, !.disk.bm25 = OkFile(chunks)]

\* HybridRetriever.build_index
HybridBuild(w, chunks) ==
    LET d == [w EXCEPT !.disk.dir = TRUE]
        s == IF d.sem.present THEN SemanticBuild(d, chunks) ELSE d
    IN [KeywordBuild(s, chunks) EXCEPT !.index_built = TRUE]

\* RAGRetriever._build_index over the chunks of the source documents
BuildIndex(w, chunks) ==
    LET d == [w EXCEPT !.disk.dir = TRUE]
    IN IF chunks # <<>> THEN HybridBuild(d, chunks) ELSE d

\* What a call of the facade or of the hybrid retriever leaves behind: the state, the
\* value returned, the exception that left it ("none": a normal return) and the trace.
Outcome(world, ret, err, tr) == [w |-> world, ret |-> ret, err |-> err, tr |-> tr]

\* The rest of _load_index once chunks.pkl was read: the retrievers' data, then
\* index_built.
LoadStores(m, chunks) ==
    [m EXCEPT !.sem.documents = IF m.sem.present THEN chunks ELSE @,
              !.sem.chunk_map = IF m.sem.present THEN chunks ELSE @,
              !.kw.documents = IF m.disk.bm25.st = "ok" THEN m.disk.bm25.data ELSE <<>>,
              !.kw.doc_map = IF m.disk.bm25.st = "ok" THEN m.disk.bm25.data ELSE <<>>,
              !.index_built = TRUE]

\* RAGRetriever._load_index, from the chunks.pkl check on; m has the model loaded.
LoadChunks(m, tr) ==
    IF m.disk.chunks.st # "ok" THEN Outcome(m, <<>>, "RuntimeError", tr)
    ELSE Outcome(LoadStores(m, m.disk.chunks.data), <<>>, "none", tr)

\* RAGRetriever._load_index
LoadIndex(world, tr) ==
    LoadChunks([world EXCEPT !.sem.model = IF world.sem.present THEN TRUE ELSE @],
               Ev(tr, "load"))

\* initialize sets _initialized only after _load_index or _build_index returned.
Initialized(r) ==
    IF r.err = "none" THEN [r EXCEPT !.w.initialized = TRUE] ELSE r

\* An initialize that builds when the index directory exists and loads when it does not.
InitializeSwapped(world, chunks) ==
    IF world.initialized THEN Outcome(world, <<>>, "none", NoTrace)
    ELSE IF ~world.disk.dir
         THEN Initialized(LoadIndex(world, NoTrace))
         ELSE Initialized(Outcome(BuildIndex(world, chunks), <<>>, "none", Ev(NoTrace, "build")))

\* RAGRetriever.initialize; chunks is what the source documents chunk to now.
Initialize(world, chunks) ==
    IF world.initialized THEN Outcome(world, <<>>, "none", NoTrace)
    ELSE IF world.disk.dir
         THEN Initialized(LoadIndex(world, NoTrace))
         ELSE Initialized(Outcome(BuildIndex(world, chunks), <<>>, "none", Ev(NoTrace, "build")))

\* RAGRetriever._clear_cache
ClearCache(world) ==
    [world EXCEPT !.sem.cache = IF world.sem.present THEN LRUClear(@) ELSE @,
                  !.cache = LRUClear(@)]

\* reload after _clear_cache and the four resets: the build or load branch.
ReloadBranch(d, chunks, force_rebuild, tr) ==
    IF force_rebuild \/ ~d.disk.dir
    THEN Outcome(BuildIndex(d, chunks), <<>>, "none", Ev(tr, "build"))
    ELSE LoadIndex(d, tr)

\* reload after _clear_cache: the writes through semantic_retriever raise
\* AttributeError when it is None.
ReloadReset(c, chunks, force_rebuild, tr) ==
    IF ~c.sem.present THEN Outcome(c, <<>>, "AttributeError", tr)
    ELSE ReloadBranch([c EXCEPT !.sem.index_cache = <<>>, !.sem.index_path = "None",
                                !.index_built = FALSE, !.initialized = FALSE],
                      chunks, force_rebuild, Ev(tr, "drop_index"))

\* RAGRetriever.reload
Reload(world, chunks, force_rebuild) ==
    ReloadReset(ClearCache(world), chunks, force_rebuild, Ev(NoTrace, "clear_cache"))

\* RAGRetriever.close
Close(world) ==
    IF ~world.sem.present THEN Outcome(world, <<>>, "AttributeError", NoTrace)
    ELSE Outcome([world EXCEPT !.sem.index_cache = <<>>], <<>>, "none", NoTrace)

\* -------------------------------------------------------------- retrieval

\* A retrieval result: the chunk, annotated by the retriever it came from with
\* similarity_score (kind "sem") or bm25_score (kind "kw").
Result(id, kind, score) == [id |-> id, kind |-> kind, score |-> score]

\* x.get('similarity_score', 0)
SimilarityOf(r) == IF r.kind = "sem" THEN r.score ELSE 0

\* r.get('bm25_score', 0)
Bm25Of(r) == IF r.kind = "kw" THEN r.score ELSE 0

Ids(results) == [i \in 1..Len(results) |-> results[i].id]

\* [r for r in results if r['similarity_score'] >= score_threshold]
AboveThreshold(results, threshold) == SelectSeq(results, LAMBDA r : r.score >= threshold)

\* The k - n entries IndexFlatIP.search pads with when the index holds n < k vectors.
FaissPad(n, k) == [i \in 1..(k - n) |-> [key |-> -1000, item |-> -1]]

\* IndexFlatIP.search(query, k): the rows by descending inner product, as
\* [key: score, item: row number from 0], padded to k entries with row -1.
FaissSearch(index, q, k) ==
    Take(SortDesc([i \in 1..Len(index) |-> [key |-> Similarity(q, index[i]), item |-> i - 1]]), k)
        \o FaissPad(Min(Len(index), k), k)

\* What SemanticRetriever.retrieve and _search_index leave behind.
SemOutcome(sem, results, err) == [sem |-> sem, results |-> results, err |-> err]

\* The loop of _search_index over the rows found. A row -1 passes
\* idx < len(chunk_map) and chunk_map[-1] raises KeyError; a row beyond chunk_map
\* is skipped.
SearchRows(sem, kept) ==
    IF \E i \in 1..Len(kept) : kept[i].item = -1 THEN SemOutcome(sem, <<>>, "KeyError")
    ELSE SemOutcome(sem,
                    [i \in 1..Len(kept) |->
                        Result(sem.chunk_map[kept[i].item + 1], "sem", kept[i].key)],
                    "none")

\* _search_index once the vector structure is in memory.
SearchLoaded(sem, q, top_k) ==
    SearchRows(sem, SelectSeq(FaissSearch(sem.index_cache[1], q, top_k),
                              LAMBDA f : f.item < Len(sem.chunk_map)))

\* SemanticRetriever._search_index
SearchIndex(sem, disk, q, top_k) ==
    IF sem.index_cache # <<>> /\ sem.index_path = "file" THEN SearchLoaded(sem, q, top_k)
    ELSE IF disk.faiss.st # "ok" THEN SemOutcome(sem, <<>>, "RuntimeError")
    ELSE SearchLoaded([sem EXCEPT !.index_cache = <<disk.faiss.data>>, !.index_path = "file"],
                      q, top_k)

\* retrieve after _search_index: the threshold filter, then the cache write.
SemanticFilter(f, q, top_k, t) ==
    IF f.err # "none" THEN f
    ELSE SemOutcome([f.sem EXCEPT !.cache = LRUSet(@, q, top_k,
                                     AboveThreshold(f.results, SemanticThreshold), t).c],
                    AboveThreshold(f.results, SemanticThreshold), "none")

\* retrieve after the cache read g.
SemanticAfterGet(g, sem, disk, q, top_k, t) ==
    IF g.ret # <<>>
    THEN SemOutcome([sem EXCEPT !.cache = g.c], AboveThreshold(g.ret[1], SemanticThreshold),
                    "none")
    ELSE SemanticFilter(SearchIndex([sem EXCEPT !.cache = g.c], disk, q, top_k), q, top_k, t)

\* SemanticRetriever.retrieve(query, top_k) as HybridRetriever calls it: the default
\* score_threshold and use_cache=True.
SemanticRetrieve(sem, disk, q, top_k, t) ==
    IF sem.documents = <<>> THEN SemOutcome([sem EXCEPT !.model = TRUE], <<>>, "none")
    ELSE SemanticAfterGet(LRUGet(sem.cache, q, top_k, t), [sem EXCEPT !.model = TRUE],
                          disk, q, top_k, t)

\* The results of indexed_scores[:top_k] with idx in doc_map and score > 0.
KeywordResults(kw, top) ==
    [i \in 1..Len(top) |-> Result(kw.doc_map[top[i].item], "kw", top[i].key)]

\* A ranking that keeps the documents whose score is 0.
TopScoredUnfiltered(scores, doc_map_len, top_k) ==
    SelectSeq(Take(SortDesc([i \in 1..Len(scores) |-> [key |-> scores[i], item |-> i]]), top_k),
              LAMBDA x : x.item <= doc_map_len)

\* The end of KeywordRetriever.retrieve: the documents by descending score, the
\* first top_k of them, and of these the ones in doc_map with a score above 0; as
\* [key: score, item: document number from 1].
TopScored(scores, doc_map_len, top_k) ==
    SelectSeq(Take(SortDesc([i \in 1..Len(scores) |-> [key |-> scores[i], item |-> i]]), top_k),
              LAMBDA x : x.item <= doc_map_len /\ x.key > 0)

\* KeywordRetriever.retrieve
KeywordRetrieve(kw, q, top_k) ==
    IF kw.documents = <<>> THEN <<>>
    ELSE KeywordResults(kw,
            TopScored([i \in 1..Len(kw.documents) |-> Bm25(q, kw.documents[i])],
                      Len(kw.doc_map), top_k))

\* What model.predict and the annotation loop do: fail is "none" when every candidate
\* got its score, otherwise the step that raised ("content": a candidate without
\* content, "predict": the model, "float": a score missing or not a number).
Scoring(fail, scores) == [fail |-> fail, scores |-> scores]

\* A rerank that lets a scoring failure reach its caller.
RerankerRerankRaising(model, scoring, results, top_k) ==
    IF ~model \/ results = <<>> THEN [ret |-> Take(results, top_k), err |-> "none"]
    ELSE IF Len(results) <= top_k THEN [ret |-> results, err |-> "none"]
    ELSE IF scoring.fail # "none" THEN [ret |-> <<>>, err |-> "Exception"]
    ELSE [ret |-> Take(Items(SortDesc([i \in 1..Len(results) |->
                                         [key |-> scoring.scores[i], item |-> results[i]]])),
                       top_k),
          err |-> "none"]

\* Reranker.rerank; model says whether the cross-encoder was loaded, scoring what
\* scoring the candidates does. A failure inside the try block happens before the
\* sort, so the list is still in its original order.
RerankerRerank(model, scoring, results, top_k) ==
    IF ~model \/ results = <<>> THEN [ret |-> Take(results, top_k), err |-> "none"]
    ELSE IF Len(results) <= top_k THEN [ret |-> results, err |-> "none"]
    ELSE IF scoring.fail # "none" THEN [ret |-> Take(results, top_k), err |-> "none"]
    ELSE [ret |-> Take(Items(SortDesc([i \in 1..Len(results) |->
                                         [key |-> scoring.scores[i], item |-> results[i]]])),
                       top_k),
          err |-> "none"]

\* Reranker.rerank as HybridRetriever calls it, with a cross-encoder that scores.
Rerank(model, q, results, top_k) ==
    RerankerRerank(model,
                   Scoring("none", [i \in 1..Len(results) |-> RerankScore(q, results[i].id)]),
                   results, top_k).ret

\* normalized_score * semantic_weight, on the fused scale
SemanticPart(c, r) == 5 * c.semantic_weight * (SimilarityOf(r) + 100)

\* min(bm25_score / bm25_max_score, 1.0) * keyword_weight, on the fused scale
KeywordPart(c, r) == c.keyword_weight * Min(Bm25Of(r), Bm25MaxScore)

Position(smap, id) ==
    IF \E i \in 1..Len(smap) : smap[i].id = id
    THEN CHOOSE i \in 1..Len(smap) : smap[i].id = id
    ELSE 0

\* score_map[id] = entry: a new key goes last, an old one keeps its place.
PutEntry(smap, i, entry) == IF i = 0 THEN Append(smap, entry) ELSE [smap EXCEPT ![i] = entry]

RECURSIVE AddSemantic(_, _, _)
\* The first loop of the fusion: score_map[r['id']] = {chunk, score}
AddSemantic(c, smap, results) ==
    IF results = <<>> THEN smap
    ELSE AddSemantic(c,
                     PutEntry(smap, Position(smap, Head(results).id),
                              [id |-> Head(results).id, chunk |-> Head(results),
                               score |-> SemanticPart(c, Head(results))]),
                     Tail(results))

\* A keyword result whose score replaces the semantic one instead of adding to it.
KeywordEntryOverwrite(c, smap, i, r) ==
    [id |-> r.id, chunk |-> IF i = 0 THEN r ELSE smap[i].chunk, score |-> KeywordPart(c, r)]

\* The entry of a keyword result: a chunk already in score_map accumulates.
KeywordEntry(c, smap, i, r) ==
    IF i = 0 THEN [id |-> r.id, chunk |-> r, score |-> KeywordPart(c, r)]
    ELSE [smap[i] EXCEPT !.score = @ + KeywordPart(c, r)]

RECURSIVE AddKeyword(_, _, _)
\* The second loop of the fusion.
AddKeyword(c, smap, results) ==
    IF results = <<>> THEN smap
    ELSE AddKeyword(c,
                    PutEntry(smap, Position(smap, Head(results).id),
                             KeywordEntry(c, smap, Position(smap, Head(results).id),
                                          Head(results))),
                    Tail(results))

\* score_map of HybridRetriever.retrieve, in insertion order
ScoreMap(c, semantic_results, keyword_results) ==
    AddKeyword(c, AddSemantic(c, <<>>, semantic_results), keyword_results)

\* A fused ranking that puts the lowest total first.
FusedTopAscending(smap, top_k) ==
    Take(Items(SortAscending([i \in 1..Len(smap) |->
                                 [key |-> smap[i].score, item |-> smap[i].chunk]])),
         top_k)

\* results.sort(key=score, reverse=True)[:top_k] over score_map.values()
FusedTop(smap, top_k) ==
    Take(Items(SortDesc([i \in 1..Len(smap) |-> [key |-> smap[i].score, item |-> smap[i].chunk]])),
         top_k)

\* The sort of the use_fusion=False branch over the union.
UnionSorted(unique, top_k) ==
    Take(Items(SortDesc([i \in 1..Len(unique) |->
                            [key |-> SimilarityOf(unique[i]), item |-> unique[i]]])),
         top_k)

\* The use_fusion=False branch: union by id, sort by similarity, truncate.
UnionTop(semantic_results, keyword_results, top_k) ==
    UnionSorted(UniqueById(semantic_results \o keyword_results, {}), top_k)

\* The top_k HybridRetriever.retrieve hands to SemanticRetriever.retrieve.
SemanticTopK(top_k) == top_k

\* The call's arguments, as the stages of retrieve pass them on.
Call(q, top_k, use_fusion, use_cache, t) ==
    [q |-> q, k |-> top_k, use_fusion |-> use_fusion, use_cache |-> use_cache, t |-> t]

\* The end of retrieve: the cache write when use_cache, and the return.
HybridFinish(world, call, final_results, tr) ==
    IF call.use_cache
    THEN Outcome([world EXCEPT !.cache = LRUSet(@, call.q, call.k, final_results, call.t).c],
                 final_results, "none", Ev(tr, "cache_set"))
    ELSE Outcome(world, final_results, "none", tr)

\* if self.use_rerank and self.reranker and final_results: rerank
HybridRerank(world, c, call, fused, tr) ==
    IF c.use_rerank /\ world.reranker.present /\ fused # <<>>
    THEN HybridFinish(world, call, Rerank(world.reranker.model, call.q, fused, call.k),
                      Ev(tr, "rerank"))
    ELSE HybridFinish(world, call, fused, tr)

\* The fusion once score_map is built.
HybridFuse(world, c, call, smap, tr) ==
    HybridRerank(world, c, call, FusedTop(smap, call.k), [Ev(tr, "fusion") EXCEPT !.smap = smap])

\* retrieve once both result lists are there.
HybridCombine(world, c, call, semantic_results, keyword_results, tr) ==
    IF ~call.use_fusion
    THEN HybridFinish(world, call, UnionTop(semantic_results, keyword_results, call.k),
                      Ev(tr, "union"))
    ELSE HybridFuse(world, c, call, ScoreMap(c, semantic_results, keyword_results), tr)

\* retrieve after the semantic search s: an exception of the search leaves retrieve;
\* otherwise the keyword search follows.
HybridKeyword(world, c, call, s, keyword_results, tr) ==
    IF s.err # "none" THEN Outcome(world, <<>>, s.err, tr)
    ELSE HybridCombine(world, c, call, s.results, keyword_results,
                       [Ev(tr, "keyword") EXCEPT !.kwK = call.k, !.kwRes = keyword_results])

\* retrieve after the semantic search s.
HybridAfterSemantic(world, c, call, s, tr) ==
    HybridKeyword([world EXCEPT !.sem = s.sem], c, call, s,
                  KeywordRetrieve(world.kw, call.q, call.k),
                  [Ev(tr, "semantic") EXCEPT !.semK = SemanticTopK(call.k), !.semRes = s.results])

\* retrieve from the semantic search on (a cache miss, or use_cache false).
HybridSearch(world, c, call, tr) ==
    IF world.sem.present
    THEN HybridAfterSemantic(world, c, call,
                             SemanticRetrieve(world.sem, world.disk, call.q,
                                              SemanticTopK(call.k), call.t),
                             tr)
    ELSE HybridKeyword(world, c, call, SemOutcome(world.sem, <<>>, "none"),
                       KeywordRetrieve(world.kw, call.q, call.k), tr)

\* A retrieve that goes on to search although the cache had the entry.
HybridAfterGetNoBypass(world, c, call, g, tr) ==
    HybridSearch([world EXCEPT !.cache = g.c], c, call, tr)

\* retrieve after the cache read g: a hit is returned as it is.
HybridAfterGet(world, c, call, g, tr) ==
    IF g.ret # <<>> THEN Outcome([world EXCEPT !.cache = g.c], g.ret[1], "none", tr)
    ELSE HybridSearch([world EXCEPT !.cache = g.c], c, call, tr)

\* HybridRetriever.retrieve(query, top_k, use_fusion, use_cache) at time call.t; tr is
\* the trace of the caller so far.
HybridRetrieve(world, c, call, tr) ==
    IF ~world.index_built THEN Outcome(world, <<>>, "none", tr)
    ELSE IF call.use_cache
         THEN HybridAfterGet(world, c, call, LRUGet(world.cache, call.q, call.k, call.t),
                             Ev(tr, "cache_get"))
         ELSE HybridSearch(world, c, call, tr)

\* retrieve after initialize returned or raised.
FacadeAfterInitialize(i, c, call) ==
    IF i.err # "none" THEN i ELSE HybridRetrieve(i.w, c, call, i.tr)

\* RAGRetriever.retrieve(query, top_k, use_fusion, use_cache)
FacadeRetrieve(world, c, chunks, call) ==
    FacadeAfterInitialize(Initialize(world, chunks), c, call)

\* ------------------------------------------------------------------ state

VARIABLES
    now,      \* time.time(), in ticks
    steps,    \* operations performed so far
    lru,      \* an LRUCache used directly
    lop,      \* the last operation on lru: its arguments and outcome
    touch,    \* per key of lru, the step of its last set or get hit (0: never)
    cfg,      \* the configuration the RAGRetriever was constructed with
    corpus,   \* the chunks the source documents chunk to now
    w,        \* the RAGRetriever, its retrievers and caches, and the index directory
    last,     \* the last operation on the RAGRetriever: its arguments and outcome
    inp,      \* the arguments of a function called on its own
    out,      \* what that call returned
    thr       \* the threads that share lru: the lock and each thread's position and locals

fvars == <<cfg, corpus, w, last>>

\* The variables of the functions called on their own and of the threads.
pvars == <<inp, out, thr>>

vars == <<now, steps, lru, lop, touch, cfg, corpus, w, last, inp, out, thr>>

\* A configuration: hybrid or keyword-only (semantic_weight 0), and reranking on with
\* the cross-encoder loaded or off.
Config(semantic, use_rerank) ==
    [semantic |-> semantic, semantic_weight |-> IF semantic THEN SemanticWeight ELSE 0,
     keyword_weight |-> KeywordWeight, use_rerank |-> use_rerank, reranker_model |-> use_rerank]

\* The configurations the RAGRetriever is constructed with.
Configs == {Config(TRUE, TRUE), Config(TRUE, FALSE), Config(FALSE, TRUE)}

NoInput == [fn |-> "none"]

NoOutput == [fn |-> "none"]

NoThreads == [mode |-> "none"]

\* No function is called on its own and no thread runs.
PureIdle == inp = NoInput /\ out = NoOutput /\ thr = NoThreads

NoCall == [op |-> "none", q |-> "", k |-> 0, use_fusion |-> FALSE, use_cache |-> FALSE,
           force |-> FALSE, ret |-> <<>>, err |-> "none", tr |-> NoTrace]

\* The facade does not take part in the runs of the cache on its own.
FacadeIdle ==
    /\ cfg = Config(TRUE, FALSE)
    /\ corpus = <<>>
    /\ w = NewWorld(cfg, NoDisk)
    /\ last = NoCall

\* ------------------------------------------------- the cache on its own

Values == {"v1", "v2"}

\* The capacities the cache is constructed with.
Capacities == {0, 1, 2}

NoOp == [op |-> "none", key |-> <<0, 0>>, ret |-> <<>>, err |-> "none", removed |-> {}]

InitLRU ==
    /\ now = 0
    /\ steps = 0
    /\ \E cap \in Capacities : lru = NewCache(cap, TTL)
    /\ lop = NoOp
    /\ touch = [k \in Keys |-> 0]
    /\ FacadeIdle
    /\ PureIdle

Removed(c, d) == DOMAIN c.cache \ DOMAIN d.cache

LGet(q, k) ==
    LET r == LRUGet(lru, q, k, now)
    IN /\ steps < MaxStepsLRU
       /\ steps' = steps + 1
       /\ lru' = r.c
       /\ lop' = [op |-> "get", key |-> MakeKey(q, k), ret |-> r.ret, err |-> r.err,
                  removed |-> Removed(lru, r.c)]
       /\ touch' = IF r.ret # <<>> THEN [touch EXCEPT ![MakeKey(q, k)] = steps + 1] ELSE touch
       /\ UNCHANGED <<now, fvars, pvars>>

LSet(q, k, v) ==
    LET r == LRUSet(lru, q, k, v, now)
    IN /\ steps < MaxStepsLRU
       /\ steps' = steps + 1
       /\ lru' = r.c
       /\ lop' = [op |-> "set", key |-> MakeKey(q, k), ret |-> <<>>, err |-> r.err,
                  removed |-> Removed(lru, r.c)]
       /\ touch' = IF r.err = "none" THEN [touch EXCEPT ![MakeKey(q, k)] = steps + 1] ELSE touch
       /\ UNCHANGED <<now, fvars, pvars>>

LInvalidate(q, k) ==
    LET c == LRUInvalidate(lru, q, k)
    IN /\ steps < MaxStepsLRU
       /\ steps' = steps + 1
       /\ lru' = c
       /\ lop' = [op |-> "invalidate", key |-> <<HashOf(q), k>>, ret |-> <<>>, err |-> "none",
                  removed |-> Removed(lru, c)]
       /\ UNCHANGED <<now, touch, fvars, pvars>>

LClear ==
    /\ steps < MaxStepsLRU
    /\ steps' = steps + 1
    /\ lru' = LRUClear(lru)
    /\ lop' = [NoOp EXCEPT !.op = "clear", !.removed = DOMAIN lru.cache]
    /\ UNCHANGED <<now, touch, fvars, pvars>>

LTick ==
    /\ now < MaxTime
    /\ steps < MaxStepsLRU
    /\ steps' = steps + 1
    /\ now' = now + 1
    /\ lop' = [NoOp EXCEPT !.op = "tick"]
    /\ UNCHANGED <<lru, touch, fvars, pvars>>

NextLRU ==
    \/ \E q \in Queries, k \in TopKs : LGet(q, k)
    \/ \E q \in Queries, k \in TopKs, v \in Values : LSet(q, k, v)
    \/ \E q \in Queries, k \in {0} \cup TopKs : LInvalidate(q, k)
    \/ LClear
    \/ LTick

SpecLRU == InitLRU /\ [][NextLRU]_vars

\* ------------------------------------------------------ claims on the cache

Age(c, key, t) == t - c.cache[key].ts

\* The key of c least recently set or returned by a get hit, by the touch record.
LeastRecentlyUsed(c) ==
    CHOOSE k \in DOMAIN c.cache : \A j \in DOMAIN c.cache : touch[k] <= touch[j]

\* C1: a set of an absent key on a full cache (capacity >= 1) removes exactly the
\* least recently used key (least recently set or hit), whatever the entries' ages,
\* adds one to the eviction counter and leaves every other entry as it was.
C1_SetEvictsLeastRecentlyUsed ==
    [][(/\ lop'.op = "set"
        /\ lru.capacity >= 1
        /\ Cardinality(DOMAIN lru.cache) = lru.capacity
        /\ lop'.key \notin DOMAIN lru.cache)
       => (/\ lop'.err = "none"
           /\ lop'.removed = {LeastRecentlyUsed(lru)}
           /\ DOMAIN lru'.cache = (DOMAIN lru.cache \ {LeastRecentlyUsed(lru)}) \cup {lop'.key}
           /\ \A k \in DOMAIN lru.cache \ {LeastRecentlyUsed(lru)} : lru'.cache[k] = lru.cache[k]
           /\ lru'.evictions = lru.evictions + 1)]_vars

\* A set has just evicted a key while an entry that is already expired stayed.
C1_Witness ==
    /\ lop.op = "set"
    /\ lop.removed # {}
    /\ lru.capacity >= 1
    /\ \E k \in DOMAIN lru.cache : k # lop.key /\ Age(lru, k, now) >= lru.ttl

\* C2: a get of an entry younger than the TTL returns its value and counts a hit; a
\* get of an entry whose age has reached the TTL returns None, counts a miss and
\* removes the key from the map and from the order; a get of an absent key is a
\* miss; and no other operation removes an entry because of its age: a set removes
\* at most the head of the order, an invalidate only the keys it names, time passing
\* removes nothing.
C2_TtlIsLazy ==
    [][/\ (lop'.op = "get" /\ lop'.key \in DOMAIN lru.cache /\ Age(lru, lop'.key, now) < lru.ttl)
          => (/\ lop'.ret = <<lru.cache[lop'.key].data>>
              /\ lru'.hits = lru.hits + 1
              /\ lru'.misses = lru.misses
              /\ lop'.removed = {})
       /\ (lop'.op = "get" /\ lop'.key \in DOMAIN lru.cache /\ Age(lru, lop'.key, now) >= lru.ttl)
          => (/\ lop'.ret = <<>>
              /\ lru'.misses = lru.misses + 1
              /\ lru'.hits = lru.hits
              /\ lop'.key \notin DOMAIN lru'.cache
              /\ lop'.key \notin Range(lru'.order)
              /\ lop'.removed = {lop'.key})
       /\ (lop'.op = "get" /\ lop'.key \notin DOMAIN lru.cache)
          => (lop'.ret = <<>> /\ lru'.misses = lru.misses + 1 /\ lop'.removed = {})
       /\ (lop'.op = "tick") => (lru'.cache = lru.cache /\ lru'.order = lru.order)
       /\ (lop'.op = "set")
          => (/\ lop'.removed \subseteq {k \in DOMAIN lru.cache : lru.order # <<>> /\ k = Head(lru.order)}
              /\ lop'.removed # {} => (/\ lop'.key \notin DOMAIN lru.cache
                                       /\ Len(lru.order) >= lru.capacity))
       /\ (lop'.op = "invalidate")
          => lop'.removed = {k \in DOMAIN lru.cache :
                                k[1] = lop'.key[1] /\ (lop'.key[2] = 0 \/ k[2] = lop'.key[2])}
      ]_vars

\* A get has just found its entry expired and removed it, while another entry that
\* is just as old is still stored.
C2_Witness ==
    /\ lop.op = "get"
    /\ lop.removed = {lop.key}
    /\ lop.ret = <<>>
    /\ lru.misses >= 1
    /\ \E k \in DOMAIN lru.cache : Age(lru, k, now) >= lru.ttl

\* C3: the number of stored entries, expired or not, never exceeds the capacity.
C3_SizeWithinCapacity ==
    /\ Cardinality(DOMAIN lru.cache) <= lru.capacity
    /\ Len(lru.order) <= lru.capacity

\* The cache is full, has evicted before, and holds an expired entry.
C3_Witness ==
    /\ lru.capacity = 2
    /\ Cardinality(DOMAIN lru.cache) = 2
    /\ lru.evictions >= 1
    /\ \E k \in DOMAIN lru.cache : Age(lru, k, now) >= lru.ttl

\* ------------------------------------------------------------ the facade

\* The cache on its own does not take part in the runs of the facade.
CacheIdle ==
    /\ lru = NewCache(0, TTL)
    /\ lop = NoOp
    /\ touch = [k \in Keys |-> 0]

Init ==
    /\ now = 0
    /\ steps = 0
    /\ cfg \in Configs
    /\ corpus \in Corpora
    /\ w = NewWorld(cfg, NoDisk)
    /\ last = NoCall
    /\ CacheIdle
    /\ PureIdle

Step ==
    /\ steps < MaxSteps
    /\ steps' = steps + 1
    /\ UNCHANGED <<lru, lop, touch, cfg, pvars>>

\* The call returns (or raises) r: its state and outcome are recorded.
Returns(r, call) ==
    /\ Step
    /\ w' = r.w
    /\ last' = [call EXCEPT !.ret = r.ret, !.err = r.err, !.tr = r.tr]
    /\ UNCHANGED <<now, corpus>>

DoInitialize == Returns(Initialize(w, corpus), [NoCall EXCEPT !.op = "initialize"])

DoRetrieve(q, k, use_fusion, use_cache) ==
    Returns(FacadeRetrieve(w, cfg, corpus, Call(q, k, use_fusion, use_cache, now)),
            [NoCall EXCEPT !.op = "retrieve", !.q = q, !.k = k, !.use_fusion = use_fusion,
                           !.use_cache = use_cache])

DoReload(force_rebuild) ==
    Returns(Reload(w, corpus, force_rebuild),
            [NoCall EXCEPT !.op = "reload", !.force = force_rebuild])

DoClose == Returns(Close(w), [NoCall EXCEPT !.op = "close"])

\* A new process constructs a new RAGRetriever over the same index directory.
Restart ==
    /\ Step
    /\ w' = NewWorld(cfg, w.disk)
    /\ last' = [NoCall EXCEPT !.op = "restart"]
    /\ UNCHANGED <<now, corpus>>

\* The source documents change.
SetCorpus(chunks) ==
    /\ chunks # corpus
    /\ Step
    /\ corpus' = chunks
    /\ last' = [NoCall EXCEPT !.op = "set_corpus"]
    /\ UNCHANGED <<now, w>>

Tick ==
    /\ now < MaxTime
    /\ Step
    /\ now' = now + 1
    /\ last' = [NoCall EXCEPT !.op = "tick"]
    /\ UNCHANGED <<corpus, w>>

Next ==
    \/ DoInitialize
    \/ \E q \in Queries, k \in TopKs, f \in BOOLEAN, c \in BOOLEAN : DoRetrieve(q, k, f, c)
    \/ \E force \in BOOLEAN : DoReload(force)
    \/ DoClose
    \/ Restart
    \/ \E chunks \in Corpora : SetCorpus(chunks)
    \/ Tick

Spec == Init /\ [][Next]_vars

\* ---------------------------------------------------- claims on the facade

Events(call) == Range(call.tr.ev)

SearchEvents == {"semantic", "keyword", "fusion", "union", "rerank"}

\* The hybrid cache holds an entry for (q, k) that has not expired at time t.
HoldsFresh(c, q, k, t) ==
    /\ MakeKey(q, k) \in DOMAIN c.cache
    /\ t - c.cache[MakeKey(q, k)].ts < c.ttl

\* C4: with use_cache and a non-expired entry for (query, top_k) in the hybrid cache,
\* retrieve returns that entry and runs no semantic search, keyword search, fusion or
\* reranking (and leaves the semantic retriever as it was); with use_cache false the
\* hybrid cache, its counters included, is left exactly as it was.
C4_CacheHitBypassesSearch ==
    [][(last'.op = "retrieve")
       => /\ (last'.use_cache /\ HoldsFresh(w.cache, last'.q, last'.k, now))
             => (/\ last'.err = "none"
                 /\ last'.ret = w.cache.cache[MakeKey(last'.q, last'.k)].data
                 /\ Events(last') \cap SearchEvents = {}
                 /\ "cache_set" \notin Events(last')
                 /\ w'.sem = w.sem
                 /\ w'.cache.hits = w.cache.hits + 1)
          /\ (~last'.use_cache)
             => (/\ w'.cache = w.cache
                 /\ Events(last') \cap {"cache_get", "cache_set"} = {})
      ]_vars

\* A retrieve was just answered from the hybrid cache with a non-empty list.
C4_Witness ==
    /\ last.op = "retrieve"
    /\ last.use_cache
    /\ last.tr.ev = <<"cache_get">>
    /\ last.ret # <<>>
    /\ w.cache.hits >= 1

\* The score of chunk id in a result list (0 when the list does not hold it).
ScoreIn(results, id) ==
    IF \E i \in 1..Len(results) : results[i].id = id
    THEN (CHOOSE r \in Range(results) : r.id = id).score
    ELSE 0

In(results, id) == \E i \in 1..Len(results) : results[i].id = id

\* The total the claim gives chunk id, on the fused scale: semantic_weight *
\* (similarity + 1) / 2 if it is a semantic result, plus keyword_weight *
\* min(bm25 / ceiling, 1) if it is a keyword result.
Total(call, id) ==
    (IF In(call.tr.semRes, id)
     THEN 5 * cfg.semantic_weight * (ScoreIn(call.tr.semRes, id) + 100) ELSE 0)
    + (IF In(call.tr.kwRes, id)
       THEN cfg.keyword_weight * Min(ScoreIn(call.tr.kwRes, id), Bm25MaxScore) ELSE 0)

Candidates(call) == Range(Ids(call.tr.semRes)) \cup Range(Ids(call.tr.kwRes))

\* C5: a retrieve that fuses gives every distinct chunk id of the two result lists
\* one score, the claim's total, and returns the ids by descending total, truncated
\* to top_k; with weights 0.7 / 0.3 a chunk with similarity 1.0 and normalized BM25
\* 1.0 scores 1.0 and a keyword-only chunk with normalized BM25 0.5 scores 0.15.
C5_FusionScores ==
    (last.op = "retrieve" /\ last.use_fusion /\ "fusion" \in Events(last))
    => /\ last.err = "none"
       /\ {last.tr.smap[i].id : i \in 1..Len(last.tr.smap)} = Candidates(last)
       /\ Len(last.tr.smap) = Cardinality(Candidates(last))
       /\ \A i \in 1..Len(last.tr.smap) : last.tr.smap[i].score = Total(last, last.tr.smap[i].id)
       /\ Len(last.ret) = Min(last.k, Cardinality(Candidates(last)))
       /\ Range(Ids(last.ret)) \subseteq Candidates(last)
       /\ \A i, j \in 1..Len(last.ret) :
             i < j => /\ last.ret[i].id # last.ret[j].id
                      /\ Total(last, last.ret[i].id) >= Total(last, last.ret[j].id)
       /\ \A id \in Candidates(last) \ Range(Ids(last.ret)) :
             \A i \in 1..Len(last.ret) : Total(last, last.ret[i].id) >= Total(last, id)
       /\ (cfg.semantic_weight = 7 /\ cfg.keyword_weight = 3)
          => \A i \in 1..Len(last.tr.smap) :
                LET id == last.tr.smap[i].id
                IN /\ (/\ In(last.tr.semRes, id) /\ ScoreIn(last.tr.semRes, id) = 100
                       /\ In(last.tr.kwRes, id) /\ ScoreIn(last.tr.kwRes, id) >= Bm25MaxScore)
                      => last.tr.smap[i].score = 10000
                   /\ (~In(last.tr.semRes, id) /\ 2 * ScoreIn(last.tr.kwRes, id) = Bm25MaxScore)
                      => last.tr.smap[i].score = 1500

\* A retrieve has just fused three chunks with weights 0.7 / 0.3: one in both lists
\* with similarity 1.0 and BM25 at the ceiling, one keyword-only at half the ceiling
\* which the truncation to top_k left out.
C5_Witness ==
    /\ last.op = "retrieve" /\ last.use_fusion /\ "fusion" \in Events(last)
    /\ cfg.semantic_weight = 7 /\ cfg.keyword_weight = 3
    /\ Len(last.tr.smap) = 3
    /\ Len(last.ret) = 2
    /\ \E i \in 1..3 : last.tr.smap[i].score = 10000 /\ In(last.tr.semRes, last.tr.smap[i].id)
                       /\ In(last.tr.kwRes, last.tr.smap[i].id)
    /\ \E i \in 1..3 : last.tr.smap[i].score = 1500 /\ ~In(last.tr.semRes, last.tr.smap[i].id)

\* C6: on a cache miss retrieve asks the semantic search for top_k * 2 candidates
\* and the keyword search for top_k candidates.
C6_SemanticAskedForTwiceTopK ==
    (last.op = "retrieve")
    => /\ ("semantic" \in Events(last)) => last.tr.semK = 2 * last.k
       /\ ("keyword" \in Events(last)) => last.tr.kwK = last.k

\* C7: every result the facade returns from a fusing retrieve has a final (fused)
\* score of at least score_threshold, and the semantic search drops nothing for its
\* score: every row it was asked for reaches the fusion.
C7_ThresholdAppliedByFacade ==
    (last.op = "retrieve" /\ last.err = "none" /\ "fusion" \in Events(last))
    => /\ \A i \in 1..Len(last.ret) : Total(last, last.ret[i].id) >= ScoreThreshold
       /\ ("semantic" \in Events(last))
          => Len(last.tr.semRes) = Min(last.tr.semK, Len(w.sem.chunk_map))

\* C8: initialize on an uninitialized manager loads when the index directory exists
\* and builds from the source documents otherwise; a normal return leaves the
\* manager initialized, a raising load leaves it uninitialized; on an initialized
\* manager initialize does nothing.
C8_InitializeLoadsOrBuilds ==
    [][(last'.op = "initialize")
       => /\ w.initialized => (last'.tr.ev = <<>> /\ last'.err = "none" /\ w' = w)
          /\ (~w.initialized /\ w.disk.dir)
             => /\ last'.tr.ev = <<"load">>
                /\ w'.disk = w.disk
                /\ last'.err = "none"
                   => /\ w'.index_built
                      /\ w'.sem.present => w'.sem.chunk_map = w.disk.chunks.data
                      /\ w.disk.bm25.st = "ok" => w'.kw.documents = w.disk.bm25.data
          /\ (~w.initialized /\ ~w.disk.dir)
             => /\ last'.tr.ev = <<"build">>
                /\ last'.err = "none"
                /\ w'.disk.dir
                /\ corpus # <<>> => (/\ w'.index_built
                                     /\ w'.kw.documents = corpus
                                     /\ w'.disk.bm25 = OkFile(corpus))
          /\ (last'.err = "none") => w'.initialized
          /\ (last'.err # "none") => (~w'.initialized /\ "load" \in Events(last'))
      ]_vars

\* An initialize has just found the index directory, failed to load it and left the
\* manager uninitialized.
C8_Witness ==
    /\ last.op = "initialize"
    /\ last.tr.ev = <<"load">>
    /\ last.err = "RuntimeError"
    /\ ~w.initialized
    /\ w.disk.dir

\* C9: reload empties both caches and drops the in-memory vector structure, then
\* builds when force_rebuild is true or the index directory is missing and loads
\* otherwise.
C9_ReloadClearsThenBuildsOrLoads ==
    [][(last'.op = "reload")
       => /\ last'.tr.ev = <<"clear_cache", "drop_index",
                             IF last'.force \/ ~w.disk.dir THEN "build" ELSE "load">>
          /\ w'.cache.cache = <<>>
          /\ w'.sem.cache.cache = <<>>
          /\ w'.sem.index_cache = <<>>
      ]_vars

\* The index directory holds what a completed build over a non-empty corpus wrote
\* (the keyword store is the last file a build writes).
CompletedBuild(disk) == disk.dir /\ disk.bm25.st = "ok" /\ disk.bm25.data # <<>>

\* What a fixed fusing query returns from a state: the ranked chunk ids, or the
\* exception.
Answer(world, q, k) ==
    LET r == FacadeRetrieve(world, cfg, corpus, Call(q, k, TRUE, FALSE, now))
    IN [ids |-> Ids(r.ret), err |-> r.err]

\* C10: on an index directory produced by a completed build over a non-empty corpus
\* reload(force_rebuild=False) succeeds and every fixed query returns the same ranked
\* chunk ids after it as before it, in every configuration.
C10_ReloadIsIdempotent ==
    [][(last'.op = "reload" /\ ~last'.force /\ CompletedBuild(w.disk))
       => /\ last'.err = "none"
          /\ \A q \in Queries, k \in TopKs : Answer(w', q, k) = Answer(w, q, k)
      ]_vars

\* The retrieves a caller can make next, with every choice of arguments.
Calls(t) == {Call(q, k, f, c, t) : q \in Queries, k \in TopKs, f \in BOOLEAN, c \in BOOLEAN}

\* C11: after reload(force_rebuild=True) returned, a retrieve is answered only from
\* the chunks the source documents had at the rebuild, whatever they have become
\* since and also when they were empty: no chunk of the previous index is returned.
C11_RebuildReplacesWholesale ==
    [][(last'.op = "reload" /\ last'.force /\ last'.err = "none")
       => \A call \in Calls(now), later \in Corpora :
             Range(Ids(FacadeRetrieve(w', cfg, later, call).ret)) \subseteq Range(corpus)
      ]_vars

\* What a build over an empty corpus leaves: the index directory and no file in it.
EmptyBuilt(disk) ==
    /\ disk.dir
    /\ disk.chunks.st = "absent" /\ disk.faiss.st = "absent" /\ disk.bm25.st = "absent"

\* C13: a build over an empty corpus writes no index file, a retrieve against its
\* result returns an empty list and raises nothing, and an initialize that finds its
\* result (in the same or in a new manager) does not fail: a manager that is not yet
\* initialized takes the build branch again.
C13_EmptyCorpusIsNonFatal ==
    [][/\ (last'.op \in {"initialize", "retrieve", "reload"} /\ "build" \in Events(last')
           /\ corpus = <<>> /\ ~w.disk.dir)
          => (w'.disk.chunks = w.disk.chunks /\ w'.disk.faiss = w.disk.faiss
              /\ w'.disk.bm25 = w.disk.bm25)
       /\ (last'.op = "retrieve" /\ EmptyBuilt(w.disk) /\ corpus = <<>>)
          => (last'.err = "none" /\ last'.ret = <<>>)
       /\ (last'.op = "initialize" /\ EmptyBuilt(w.disk))
          => (/\ last'.err = "none"
              /\ ~w.initialized => last'.tr.ev = <<"build">>)
      ]_vars

\* ------------------------------------------- a damaged index directory

CorruptFile == [st |-> "corrupt", data |-> <<>>]

IndexDir(chunks, faiss, bm25) == [dir |-> TRUE, chunks |-> chunks, faiss |-> faiss, bm25 |-> bm25]

\* The chunk lists of a small and of a larger index.
SmallIndex == <<"c2">>

LargeIndex == <<"c1", "c2", "c3">>

\* Index directories with one store missing, unreadable, or written for another
\* number of chunks than the other two.
DamagedDirs ==
    {IndexDir(AbsentFile, OkFile(LargeIndex), OkFile(LargeIndex)),
     IndexDir(CorruptFile, OkFile(LargeIndex), OkFile(LargeIndex)),
     IndexDir(OkFile(LargeIndex), AbsentFile, OkFile(LargeIndex)),
     IndexDir(OkFile(LargeIndex), CorruptFile, OkFile(LargeIndex)),
     IndexDir(OkFile(LargeIndex), OkFile(LargeIndex), CorruptFile),
     IndexDir(OkFile(SmallIndex), OkFile(LargeIndex), OkFile(LargeIndex)),
     IndexDir(OkFile(LargeIndex), OkFile(SmallIndex), OkFile(LargeIndex)),
     IndexDir(OkFile(LargeIndex), OkFile(LargeIndex), OkFile(SmallIndex))}

\* A manager is constructed over an index directory that something else has written
\* or damaged; that counts as the first step.
InitDamaged ==
    /\ now = 0
    /\ steps = 1
    /\ cfg \in Configs
    /\ corpus = LargeIndex
    /\ \E d \in DamagedDirs : w = NewWorld(cfg, d)
    /\ last = [NoCall EXCEPT !.op = "damage"]
    /\ CacheIdle
    /\ PureIdle

SpecDamaged == InitDamaged /\ [][Next]_vars

\* The call needs the chunk store: it is a load, or starts with one.
NeedsChunkStore(world, call) ==
    /\ world.disk.dir
    /\ \/ call.op \in {"initialize", "retrieve"} /\ ~world.initialized
       \/ call.op = "reload" /\ ~call.force

\* The retrieve needs the vector store: the semantic search runs, finds documents,
\* is not answered from a cache and has no vector structure in memory.
NeedsVectorStore(world, call, t) ==
    /\ call.op = "retrieve"
    /\ world.sem.present
    /\ world.sem.index_cache = <<>>
    /\ ~(call.use_cache /\ HoldsFresh(world.cache, call.q, call.k, t))
    /\ ~HoldsFresh(world.sem.cache, call.q, call.k, t)
    /\ \/ world.initialized /\ world.index_built /\ world.sem.documents # <<>>
       \/ ~world.initialized /\ world.disk.dir /\ world.disk.chunks.st = "ok"
          /\ world.disk.chunks.data # <<>>

\* C12: when the index directory exists and the chunk store is absent or cannot be
\* deserialized, an initialize, reload or retrieve that needs it raises the
\* index-unavailable error (RuntimeError); when the vector store cannot be read, the
\* retrieve that needs it raises it too; neither returns a result.
C12_DamagedIndexRaises ==
    [][/\ (NeedsChunkStore(w, last') /\ w.disk.chunks.st # "ok")
          => last'.err = "RuntimeError"
       /\ (NeedsVectorStore(w, last', now) /\ w.disk.faiss.st # "ok"
           /\ ~(NeedsChunkStore(w, last') /\ w.disk.chunks.st # "ok"))
          => last'.err = "RuntimeError"
      ]_vars

\* The stores a query is served from, as loaded: their numbers of chunks.
StoreCounts(world) ==
    {Len(world.kw.documents)}
    \cup (IF world.sem.present THEN {Len(world.sem.chunk_map)} ELSE {})
    \cup (IF world.sem.present /\ world.sem.index_cache # <<>>
          THEN {Len(world.sem.index_cache[1])} ELSE {})

\* C14: a retrieve that searched and returned normally was served from stores that
\* all describe the same number of chunks.
C14_StoresAgreeInChunkCount ==
    (/\ last.op = "retrieve" /\ last.err = "none"
     /\ Events(last) \cap {"semantic", "keyword"} # {}
     /\ w.kw.documents # <<>>)
    => Cardinality(StoreCounts(w)) = 1

\* ------------------------------------------ functions called on their own

\* The lists of distinct elements of S.
RECURSIVE ListsOf(_)
ListsOf(S) ==
    {<<>>} \cup UNION {{<<x>> \o l : l \in ListsOf(S \ {x})} : x \in S}

\* The rest of the model does not take part in the run of a function on its own.
OthersIdle ==
    /\ now = 0
    /\ steps = 0
    /\ CacheIdle
    /\ FacadeIdle
    /\ thr = NoThreads

\* f is called with the arguments inp and returns r.
Applies(f, r) ==
    /\ inp.fn = f
    /\ out = NoOutput
    /\ out' = r
    /\ UNCHANGED <<now, steps, lru, lop, touch, fvars, inp, thr>>

\* The scores the cross-encoder can give the chunks (the second has a tie).
RerankTables ==
    {[c \in Chunks |-> RerankScore("qa", c)],
     [c \in Chunks |-> IF c = "c3" THEN 1 ELSE 2]}

\* The candidate lists handed to rerank: retrieval results with distinct ids.
Candidates15 ==
    {[i \in 1..Len(l) |-> Result(l[i], "kw", 100 * i)] : l \in ListsOf(Chunks)}

InitRerank ==
    /\ inp \in [fn : {"rerank"}, model : BOOLEAN, results : Candidates15, top_k : 0..3,
                fail : {"none", "content", "predict", "float"}, table : RerankTables]
    /\ out = NoOutput
    /\ OthersIdle

DoRerank ==
    Applies("rerank",
            [fn |-> "rerank"]
            @@ RerankerRerank(inp.model,
                              Scoring(inp.fail,
                                      [i \in 1..Len(inp.results) |-> inp.table[inp.results[i].id]]),
                              inp.results, inp.top_k))

SpecRerank == InitRerank /\ [][DoRerank]_vars

\* C15: rerank raises nothing; without a model, with no more than top_k candidates,
\* or when scoring fails, it returns the first min(top_k, len) candidates in their
\* order; when scoring succeeds on more than top_k candidates it returns top_k of
\* them by descending rerank score, none of those left out scoring higher.
C15_RerankNeverRaises ==
    (out.fn = "rerank")
    => /\ out.err = "none"
       /\ (~inp.model \/ Len(inp.results) <= inp.top_k \/ inp.fail # "none")
          => out.ret = SubSeq(inp.results, 1, Min(inp.top_k, Len(inp.results)))
       /\ (inp.model /\ Len(inp.results) > inp.top_k /\ inp.fail = "none")
          => /\ Len(out.ret) = inp.top_k
             /\ Range(out.ret) \subseteq Range(inp.results)
             /\ \A i, j \in 1..Len(out.ret) :
                   i < j => /\ out.ret[i] # out.ret[j]
                            /\ inp.table[out.ret[i].id] >= inp.table[out.ret[j].id]
             /\ \A r \in Range(inp.results) \ Range(out.ret) :
                   \A i \in 1..Len(out.ret) : inp.table[out.ret[i].id] >= inp.table[r.id]

\* Scoring has just failed on three candidates for top_k 2, and rerank returned the
\* first two.
C15_Witness ==
    /\ out.fn = "rerank"
    /\ inp.model /\ inp.fail = "float"
    /\ Len(inp.results) = 3 /\ inp.top_k = 2
    /\ out.err = "none"
    /\ out.ret = SubSeq(inp.results, 1, 2)

\* ----------------------------------------------------------- build_context

\* if remaining > 100: the budget a truncated block needs more than
MinRemaining == 100

\* A block of the context: the rank of its result and the length of the content it
\* carries.
Block(rank, length) == [rank |-> rank, len |-> length]

RECURSIVE ContextLoop(_, _, _, _, _)
\* The loop of build_context over the results from rank on; lens are the lengths of
\* the results' contents.
ContextLoop(lens, rank, total_chars, max_chars, context_parts) ==
    IF rank > Len(lens) THEN context_parts
    ELSE IF total_chars + lens[rank] > max_chars
         THEN IF max_chars - total_chars > MinRemaining
              THEN Append(context_parts, Block(rank, max_chars - total_chars))
              ELSE context_parts
         ELSE ContextLoop(lens, rank + 1, total_chars + lens[rank], max_chars,
                          Append(context_parts, Block(rank, lens[rank])))

\* RAGRetriever.build_context once the results are retrieved: the blocks joined.
BuildContext(lens, max_chars) == ContextLoop(lens, 1, 0, max_chars, <<>>)

RECURSIVE SumTo(_, _)
\* lens[1] + ... + lens[n]
SumTo(lens, n) == IF n = 0 THEN 0 ELSE SumTo(lens, n - 1) + lens[n]

\* The content lengths of the results and the budgets build_context is called with.
ContentLengths == {0, 50, 100, 101, 150, 250}

Budgets == {0, 100, 150, 200, 250, 300}

InitContext ==
    /\ inp \in [fn : {"build_context"},
                lens : UNION {[1..n -> ContentLengths] : n \in 0..3},
                max_chars : Budgets]
    /\ out = NoOutput
    /\ OthersIdle

DoBuildContext ==
    Applies("build_context",
            [fn |-> "build_context", parts |-> BuildContext(inp.lens, inp.max_chars)])

SpecContext == InitContext /\ [][DoBuildContext]_vars

\* The ranks whose block does not fit: the contents up to it sum to more than the
\* budget.
NotFitting(lens, max_chars) == {i \in 1..Len(lens) : SumTo(lens, i) > max_chars}

\* The first of them.
FirstNotFitting(lens, max_chars) ==
    CHOOSE i \in NotFitting(lens, max_chars) : \A j \in NotFitting(lens, max_chars) : i <= j

\* The blocks the claim describes, with at_least the budget a truncated block needs.
ClaimedContext(lens, max_chars, at_least) ==
    IF NotFitting(lens, max_chars) = {} THEN [i \in 1..Len(lens) |-> Block(i, lens[i])]
    ELSE LET f == FirstNotFitting(lens, max_chars)
             remaining == max_chars - SumTo(lens, f - 1)
         IN [i \in 1..(f - 1) |-> Block(i, lens[i])]
            \o (IF remaining >= at_least THEN <<Block(f, remaining)>> ELSE <<>>)

\* C16: the context holds the blocks in rank order while they fit; the first block
\* that does not fit is included cut to the remaining budget when at least 100
\* characters remain and dropped otherwise; no later block is included; and the
\* included contents sum to at most max_chars.
C16_ContextWithinBudget ==
    (out.fn = "build_context")
    => /\ out.parts = ClaimedContext(inp.lens, inp.max_chars, MinRemaining)
       /\ SumTo([i \in 1..Len(out.parts) |-> out.parts[i].len], Len(out.parts)) <= inp.max_chars

\* -------------------------------------------------------------- TextChunker

\* if len(content) < 50: return None
MinChunkChars == 50

RECURSIVE Sum(_)
\* sum(len(s) for s in current_chunk)
Sum(lens) == IF lens = <<>> THEN 0 ELSE Head(lens) + Sum(Tail(lens))

\* A chunk that keeps the whole text, however long.
CreateChunkUncut(chars, chunk_size, chunk_id) ==
    IF chars < MinChunkChars THEN <<>>
    ELSE <<[chunk_id |-> chunk_id, char_count |-> chars]>>

\* TextChunker._create_chunk on a text of chars characters: <<chunk>>, or <<>> for
\* None. content = text[:chunk_size]; chunk_size is not negative.
CreateChunk(chars, chunk_size, chunk_id) ==
    IF Min(chars, chunk_size) < MinChunkChars THEN <<>>
    ELSE <<[chunk_id |-> chunk_id, char_count |-> Min(chars, chunk_size)]>>

\* The chunk chunk_text emits for current_chunk, if any.
Emit(chunks, current_chunk, chunk_size) ==
    IF Sum(current_chunk) >= MinChunkChars
    THEN chunks \o CreateChunk(Sum(current_chunk), chunk_size, Len(chunks))
    ELSE chunks

\* current_chunk[overlap_start:], the sentences carried over into the next chunk
Overlap(current_chunk, chunk_overlap) ==
    SubSeq(current_chunk,
           Max(0, Len(current_chunk) - (chunk_overlap \div 10)) + 1,
           Len(current_chunk))

RECURSIVE ChunkLoop(_, _, _, _, _)
\* The loop of chunk_text over the sentences left; each sentence is known by its
\* length, and current_size is always the sum of current_chunk.
ChunkLoop(sentences, chunks, current_chunk, chunk_size, chunk_overlap) ==
    IF sentences = <<>>
    THEN IF current_chunk # <<>> THEN Emit(chunks, current_chunk, chunk_size) ELSE chunks
    ELSE IF Sum(current_chunk) + Head(sentences) > chunk_size /\ current_chunk # <<>>
         THEN ChunkLoop(Tail(sentences), Emit(chunks, current_chunk, chunk_size),
                        Append(Overlap(current_chunk, chunk_overlap), Head(sentences)),
                        chunk_size, chunk_overlap)
         ELSE ChunkLoop(Tail(sentences), chunks, Append(current_chunk, Head(sentences)),
                        chunk_size, chunk_overlap)

\* TextChunker.chunk_text on a text whose sentences (those _split_into_sentences
\* keeps) have the lengths given, each followed by one delimiter in the text.
ChunkText(sentences, chunk_size, chunk_overlap) ==
    IF Sum(sentences) + Len(sentences) < MinChunkChars THEN <<>>
    ELSE ChunkLoop(sentences, <<>>, <<>>, chunk_size, chunk_overlap)

\* The sentence lengths (all above 5, as _split_into_sentences filters), chunk sizes
\* and overlaps chunk_text is run with.
SentenceLengths == {6, 30, 50, 70, 120}

ChunkSizes == {0, 40, 50, 60, 100}

ChunkOverlaps == {0, 10, 20}

InitChunker ==
    /\ inp \in [fn : {"chunk_text"},
                sentences : UNION {[1..n -> SentenceLengths] : n \in 0..3},
                chunk_size : ChunkSizes, chunk_overlap : ChunkOverlaps]
    /\ out = NoOutput
    /\ OthersIdle

DoChunkText ==
    Applies("chunk_text",
            [fn |-> "chunk_text",
             chunks |-> ChunkText(inp.sentences, inp.chunk_size, inp.chunk_overlap)])

SpecChunker == InitChunker /\ [][DoChunkText]_vars

\* C17: every chunk chunk_text emits has a content of at least 50 and at most
\* chunk_size characters, and the chunks are numbered from 0 in order.
C17_ChunkLengthWithinBounds ==
    (out.fn = "chunk_text")
    => \A i \in 1..Len(out.chunks) :
          /\ out.chunks[i].char_count >= MinChunkChars
          /\ out.chunks[i].char_count <= inp.chunk_size
          /\ out.chunks[i].chunk_id = i - 1

\* chunk_text has just cut a chunk to chunk_size: once for a single sentence longer
\* than chunk_size, once for a carried-over sentence plus the next one.
C17_Witness ==
    /\ out.fn = "chunk_text"
    /\ inp.chunk_size = 100 /\ inp.chunk_overlap = 10
    /\ inp.sentences = <<120, 70, 50>>
    /\ Len(out.chunks) = 3
    /\ \A i \in 1..3 : out.chunks[i].char_count = 100

\* Nothing is loaded: no embedding model, no cross-encoder, no index in memory.
NothingLoaded(world) ==
    /\ ~world.sem.model
    /\ ~world.reranker.model
    /\ ~world.index_built
    /\ world.sem.documents = <<>> /\ world.sem.index_cache = <<>>
    /\ world.kw.documents = <<>>

\* C18: a RAGRetriever that was just constructed (eager_load false) has loaded no
\* embedding model, no reranking model and no index, and in keyword-only mode the
\* embedding model is never loaded.
C18_NothingLoadedAtConstruction ==
    /\ (last.op \in {"none", "restart"}) => NothingLoaded(w)
    /\ ~cfg.semantic => ~w.sem.model

\* ------------------------------------------- threads sharing one LRUCache

\* The calls the threads make in one run, clock ticks included.
MaxCalls == 3

Threads == {1, 2}

\* The capacities of the shared cache (a capacity of 0 makes set raise by itself).
SharedCapacities == {1, 2}

\* A thread between two calls.
IdleThread == [pc |-> "idle", key |-> <<0, 0>>, oldest |-> <<0, 0>>]

At(th, pc) == [th EXCEPT !.pc = pc]

\* What one step of a thread leaves: the cache, the thread, and the exception that
\* ended its call ("none" otherwise).
Stepped(c, th, err) == [c |-> c, th |-> th, err |-> err]

Raises(c, err) == Stepped(c, IdleThread, err)

DictDel(d, key) == Restrict(d, DOMAIN d \ {key})

DictPut(d, key, entry) == [k \in DOMAIN d \cup {key} |-> IF k = key THEN entry ELSE d[k]]

\* One step of LRUCache.get in thread th at time t: each dict or list operation of
\* the method is a step of its own, and another thread may run between two steps.
GetStep(c, th, t) ==
    CASE th.pc = "g_check" ->
            Stepped(c, At(th, IF th.key \in DOMAIN c.cache THEN "g_read" ELSE "g_miss"), "none")
      [] th.pc = "g_read" ->
            IF th.key \notin DOMAIN c.cache THEN Raises(c, "KeyError")
            ELSE Stepped(c, At(th, IF t - c.cache[th.key].ts < c.ttl THEN "g_remove" ELSE "g_del"),
                         "none")
      [] th.pc = "g_remove" ->
            IF th.key \notin Range(c.order) THEN Raises(c, "ValueError")
            ELSE Stepped([c EXCEPT !.order = ListRemove(@, th.key)], At(th, "g_append"), "none")
      [] th.pc = "g_append" ->
            Stepped([c EXCEPT !.order = Append(@, th.key), !.hits = @ + 1], IdleThread, "none")
      [] th.pc = "g_del" ->
            IF th.key \notin DOMAIN c.cache THEN Raises(c, "KeyError")
            ELSE Stepped([c EXCEPT !.cache = DictDel(@, th.key)], At(th, "g_del_order"), "none")
      [] th.pc = "g_del_order" ->
            IF th.key \notin Range(c.order) THEN Raises(c, "ValueError")
            ELSE Stepped([c EXCEPT !.order = ListRemove(@, th.key)], At(th, "g_miss"), "none")
      [] th.pc = "g_miss" ->
            Stepped([c EXCEPT !.misses = @ + 1], IdleThread, "none")

\* A capacity check that lets the order grow one beyond the capacity.
SetLenStepLate(c, th) ==
    Stepped(c, At(th, IF Len(c.order) > c.capacity THEN "s_pop" ELSE "s_put"), "none")

\* elif len(self.order) >= self.capacity
SetLenStep(c, th) ==
    Stepped(c, At(th, IF Len(c.order) >= c.capacity THEN "s_pop" ELSE "s_put"), "none")

\* One step of LRUCache.set in thread th at time t.
SetStep(c, th, value, t) ==
    CASE th.pc = "s_check" ->
            Stepped(c, At(th, IF th.key \in DOMAIN c.cache THEN "s_remove" ELSE "s_len"), "none")
      [] th.pc = "s_remove" ->
            IF th.key \notin Range(c.order) THEN Raises(c, "ValueError")
            ELSE Stepped([c EXCEPT !.order = ListRemove(@, th.key)], At(th, "s_put"), "none")
      [] th.pc = "s_len" -> SetLenStep(c, th)
      [] th.pc = "s_pop" ->
            IF c.order = <<>> THEN Raises(c, "IndexError")
            ELSE Stepped([c EXCEPT !.order = Tail(@)],
                         [th EXCEPT !.pc = "s_oldest", !.oldest = Head(c.order)], "none")
      [] th.pc = "s_oldest" ->
            Stepped(c, At(th, IF th.oldest \in DOMAIN c.cache THEN "s_del" ELSE "s_put"), "none")
      [] th.pc = "s_del" ->
            IF th.oldest \notin DOMAIN c.cache THEN Raises(c, "KeyError")
            ELSE Stepped([c EXCEPT !.cache = DictDel(@, th.oldest), !.evictions = @ + 1],
                         At(th, "s_put"), "none")
      [] th.pc = "s_put" ->
            Stepped([c EXCEPT !.cache = DictPut(@, th.key, [data |-> value, ts |-> t])],
                    At(th, "s_append"), "none")
      [] th.pc = "s_append" ->
            Stepped([c EXCEPT !.order = Append(@, th.key)], IdleThread, "none")

GetPcs == {"g_check", "g_read", "g_remove", "g_append", "g_del", "g_del_order", "g_miss"}

\* The threads: mode says whether the host serializes the calls under one lock, lock
\* is the thread holding it (0: free), raised whether a call has raised.
NewThreads(mode) ==
    [mode |-> mode, lock |-> 0, raised |-> FALSE, t |-> [i \in Threads |-> IdleThread]]

InitThreads ==
    /\ now = 0
    /\ steps = 0
    /\ \E cap \in SharedCapacities : lru = NewCache(cap, TTL)
    /\ lop = NoOp
    /\ touch = [k \in Keys |-> 0]
    /\ FacadeIdle
    /\ inp = NoInput
    /\ out = NoOutput
    /\ \E mode \in {"locked", "unlocked"} : thr = NewThreads(mode)

\* Thread i calls get (op "g") or set (op "s") on the key of (q, k); under the lock
\* it first acquires it.
TStart(i, op, q, k) ==
    /\ thr.mode \in {"locked", "unlocked"}
    /\ thr.t[i].pc = "idle"
    /\ thr.mode = "locked" => thr.lock = 0
    /\ steps < MaxCalls
    /\ steps' = steps + 1
    /\ thr' = [thr EXCEPT !.lock = IF thr.mode = "locked" THEN i ELSE 0,
                          !.t[i] = [IdleThread EXCEPT !.pc = op \o "_check",
                                                      !.key = MakeKey(q, k)]]
    /\ UNCHANGED <<now, lru, lop, touch, fvars, inp, out>>

\* The step r of thread i is taken; a call that returns or raises releases the lock.
TTakes(i, r) ==
    /\ lru' = r.c
    /\ thr' = [thr EXCEPT !.t[i] = r.th,
                          !.raised = @ \/ r.err # "none",
                          !.lock = IF r.th.pc = "idle" THEN 0 ELSE @]
    /\ UNCHANGED <<now, steps, lop, touch, fvars, inp, out>>

TGet(i) ==
    /\ thr.mode \in {"locked", "unlocked"}
    /\ thr.t[i].pc \in GetPcs
    /\ TTakes(i, GetStep(lru, thr.t[i], now))

TSet(i) ==
    /\ thr.mode \in {"locked", "unlocked"}
    /\ thr.t[i].pc \notin GetPcs \cup {"idle"}
    /\ TTakes(i, SetStep(lru, thr.t[i], "v1", now))

TTick ==
    /\ thr.mode \in {"locked", "unlocked"}
    /\ now < MaxTime
    /\ steps < MaxCalls
    /\ steps' = steps + 1
    /\ now' = now + 1
    /\ UNCHANGED <<lru, lop, touch, fvars, pvars>>

NextThreads ==
    \/ \E i \in Threads, op \in {"g", "s"}, q \in Queries, k \in TopKs : TStart(i, op, q, k)
    \/ \E i \in Threads : TGet(i)
    \/ \E i \in Threads : TSet(i)
    \/ TTick

SpecThreads == InitThreads /\ [][NextThreads]_vars

\* No call is in progress.
Quiescent == \A i \in Threads : thr.t[i].pc = "idle"

\* The cache is broken: more entries than the capacity, or the map and the recency
\* order do not hold the same keys.
Broken(c) ==
    \/ Cardinality(DOMAIN c.cache) > c.capacity
    \/ DOMAIN c.cache # Range(c.order)

\* C19: when every call runs under the one lock, no call raises and between two
\* calls the cache is never broken (no more entries than the capacity, the map and
\* the order hold the same keys, each once); without the lock some interleaving of
\* two threads reaches a broken state (the witness).
C19_SerializedCallsKeepTheCacheSound ==
    (thr.mode = "locked")
    => /\ ~thr.raised
       /\ Quiescent => (~Broken(lru) /\ Len(lru.order) = Cardinality(DOMAIN lru.cache))

\* Two threads without the lock have finished their calls and left the cache with
\* more entries than its capacity.
C19_Witness ==
    /\ thr.mode = "unlocked"
    /\ Quiescent
    /\ Cardinality(DOMAIN lru.cache) > lru.capacity

\* --------------------------------------------------------- KeywordRetriever

\* The terms of the documents, and a term no document holds.
DocTerms == {"ta", "tb"}

QueryTerms == DocTerms \cup {"tz"}

\* A document: its length, the terms it holds as words (what build_index finds with
\* re.findall) and how often each term occurs in it as a substring (what retrieve
\* counts with str.count); a word occurs at least once.
Doc(length, words, ta, tb) ==
    [len |-> length, words |-> words, tf |-> [t \in QueryTerms |->
        CASE t = "ta" -> ta [] t = "tb" -> tb [] OTHER -> 0]]

Docs ==
    {Doc(10, {"ta"}, 1, 0), Doc(20, {"ta", "tb"}, 2, 1), Doc(10, {}, 0, 0),
     Doc(30, {"tb"}, 0, 3), Doc(20, {}, 1, 0)}

\* math.log((num_docs - n_t + 0.5) / (n_t + 0.5) + 1), times 1000, for the index
\* sizes of the model.
IdfOf(num_docs, n_t) ==
    CASE num_docs = 1 -> 288
      [] num_docs = 2 /\ n_t = 1 -> 693
      [] num_docs = 2 /\ n_t = 2 -> 182
      [] num_docs = 3 /\ n_t = 1 -> 981
      [] num_docs = 3 /\ n_t = 2 -> 470
      [] OTHER -> 134

\* The IDF table of build_index: a term has an entry when some document holds it as
\* a word.
IdfTable(documents) ==
    LET in_docs(t) == {i \in 1..Len(documents) : t \in documents[i].words}
    IN [t \in {u \in DocTerms : in_docs(u) # {}} |->
           IdfOf(Len(documents), Cardinality(in_docs(t)))]

\* tf * (k1 + 1) / (tf + k1 * (1 - b + b * doc_len / avg_doc_length)) with k1 = 1.2
\* and b = 0.75, times 1000; avg_doc_length is total_len / num_docs.
TfSaturation(tf, doc_len, total_len, num_docs) ==
    (22000 * tf * total_len) \div (10 * tf * total_len + 3 * total_len + 9 * doc_len * num_docs)

RECURSIVE TermScores(_, _, _, _)
\* The inner loop of retrieve over the query terms, for one document: the score of
\* the document, times 1000.
TermScores(documents, idf, doc, query_terms) ==
    IF query_terms = <<>> THEN 0
    ELSE (IF Head(query_terms) \in DOMAIN idf /\ doc.tf[Head(query_terms)] > 0
          THEN (idf[Head(query_terms)]
                * TfSaturation(doc.tf[Head(query_terms)], doc.len,
                               Sum([i \in 1..Len(documents) |-> documents[i].len]),
                               Len(documents))) \div 1000
          ELSE 0)
         + TermScores(documents, idf, doc, Tail(query_terms))

\* scores of retrieve: one BM25 score per document
Bm25Scores(documents, query_terms) ==
    [i \in 1..Len(documents) |->
        TermScores(documents, IdfTable(documents), documents[i], query_terms)]

\* KeywordRetriever.retrieve over an index built from documents, with the query
\* already split into its terms.
KeywordRetrieveTerms(documents, query_terms, top_k) ==
    IF documents = <<>> \/ query_terms = <<>> THEN <<>>
    ELSE TopScored(Bm25Scores(documents, query_terms), Len(documents), top_k)

\* The queries, as lists of terms.
TermQueries ==
    {<<>>, <<"ta">>, <<"tb">>, <<"ta", "tb">>, <<"ta", "ta">>, <<"tz">>, <<"tz", "tb">>}

InitKeyword ==
    /\ inp \in [fn : {"keyword_retrieve"},
                documents : UNION {[1..n -> Docs] : n \in 0..3},
                query_terms : TermQueries, top_k : {1, 2, 3}]
    /\ out = NoOutput
    /\ OthersIdle

DoKeywordRetrieve ==
    Applies("keyword_retrieve",
            [fn |-> "keyword_retrieve",
             ret |-> KeywordRetrieveTerms(inp.documents, inp.query_terms, inp.top_k)])

SpecKeyword == InitKeyword /\ [][DoKeywordRetrieve]_vars

\* Some query term with an entry in the IDF table occurs in document i.
TermOccurs(documents, query_terms, i) ==
    \E t \in Range(query_terms) :
        /\ \E j \in 1..Len(documents) : t \in documents[j].words
        /\ documents[i].tf[t] > 0

\* C20: retrieve returns at most top_k documents, each once, in non-increasing order
\* of BM25 score, every score above 0; no document left out scores higher than one
\* returned, and when fewer than top_k are returned every document with a score
\* above 0 is among them; a document in which no query term of the IDF table occurs
\* is not returned.
C20_KeywordTopK ==
    (out.fn = "keyword_retrieve")
    => LET scores == Bm25Scores(inp.documents, inp.query_terms)
           returned == {out.ret[i].item : i \in 1..Len(out.ret)}
       IN /\ Len(out.ret) <= inp.top_k
          /\ returned \subseteq 1..Len(inp.documents)
          /\ Cardinality(returned) = Len(out.ret)
          /\ \A i \in 1..Len(out.ret) :
                /\ out.ret[i].key > 0
                /\ inp.query_terms # <<>> => out.ret[i].key = scores[out.ret[i].item]
                /\ TermOccurs(inp.documents, inp.query_terms, out.ret[i].item)
          /\ \A i, j \in 1..Len(out.ret) : i < j => out.ret[i].key >= out.ret[j].key
          /\ inp.query_terms # <<>>
             => \A d \in (1..Len(inp.documents)) \ returned :
                   /\ \A i \in 1..Len(out.ret) : out.ret[i].key >= scores[d]
                   /\ Len(out.ret) < inp.top_k => scores[d] = 0

\* retrieve has just returned two of three documents for top_k 3: the third holds no
\* query term and was left out.
C20_Witness ==
    /\ out.fn = "keyword_retrieve"
    /\ Len(inp.documents) = 3 /\ inp.top_k = 3
    /\ Len(out.ret) = 2
    /\ out.ret[1].key > out.ret[2].key
    /\ \E d \in 1..3 : ~TermOccurs(inp.documents, inp.query_terms, d)

\* ------------------------------------------------- the hybrid cache's key

\* What the same retrieve returns from the same state with use_cache=False.
Uncached(world, call) ==
    HybridRetrieve(world, cfg, [call EXCEPT !.use_cache = FALSE], NoTrace)

\* C21: on a built index, after any earlier calls, a retrieve with use_cache=True
\* returns the list (or raises the exception) the same call returns with
\* use_cache=False, for both values of use_fusion and for every query.
C21_HybridCacheIsTransparent ==
    [][(last'.op = "retrieve" /\ last'.use_cache /\ w.initialized /\ w.index_built)
       => /\ last'.ret = Uncached(w, Call(last'.q, last'.k, last'.use_fusion, TRUE, now)).ret
          /\ last'.err = Uncached(w, Call(last'.q, last'.k, last'.use_fusion, TRUE, now)).err
      ]_vars

\* ------------------------------------------- retrieve_with_expansion

\* SemanticRetriever._expand_query with num = 3: the query, its keywords joined, and
\* its first keyword. "qa" is a query of two keywords whose first keyword is "qb";
\* both are in lower case with single spaces, so joining the keywords gives the
\* query again.
ExpandQuery(q) == IF q = "qa" THEN <<"qa", "qa", "qb">> ELSE <<q, q>>

\* The seen_ids loops: the results whose id all_results does not hold yet go behind it.
ExpansionAdd(all_results, results) ==
    all_results \o UniqueById(results, Range(Ids(all_results)))

RECURSIVE ExpansionLoop(_, _, _, _, _, _, _)
\* The loop body after _search_index returned f (or raised).
ExpansionAfterSearch(f, disk, queries, top_k, use_cache, t, all_results) ==
    IF f.err # "none" THEN f
    ELSE ExpansionLoop(f.sem, disk, Tail(queries), top_k, use_cache, t,
                       ExpansionAdd(all_results, f.results))

\* The loop body after the cache read g of the expanded query.
ExpansionAfterGet(g, sem, disk, queries, top_k, use_cache, t, all_results) ==
    IF g.ret # <<>>
    THEN ExpansionLoop([sem EXCEPT !.cache = g.c], disk, Tail(queries), top_k, use_cache, t,
                       ExpansionAdd(all_results, g.ret[1]))
    ELSE ExpansionAfterSearch(SearchIndex([sem EXCEPT !.cache = g.c], disk, Head(queries), top_k),
                              disk, queries, top_k, use_cache, t, all_results)

\* for q in expanded_queries: a cached list or a search, merged into all_results
ExpansionLoop(sem, disk, queries, top_k, use_cache, t, all_results) ==
    IF queries = <<>> THEN SemOutcome(sem, all_results, "none")
    ELSE IF use_cache
         THEN ExpansionAfterGet(LRUGet(sem.cache, Head(queries), top_k, t), sem, disk, queries,
                                top_k, use_cache, t, all_results)
         ELSE ExpansionAfterSearch(SearchIndex(sem, disk, Head(queries), top_k), disk, queries,
                                   top_k, use_cache, t, all_results)

\* filtered_results.sort(key=similarity_score, reverse=True)[:top_k]
ExpansionTop(filtered_results, top_k) ==
    Take(Items(SortDesc([i \in 1..Len(filtered_results) |->
                            [key |-> filtered_results[i].score, item |-> filtered_results[i]]])),
         top_k)

\* retrieve_with_expansion after the loop: all_results is cached under the original
\* query as it is; the threshold, the sort and the truncation come after.
ExpansionFinish(f, q, top_k, use_cache, t) ==
    IF f.err # "none" THEN f
    ELSE SemOutcome(IF use_cache /\ f.results # <<>>
                    THEN [f.sem EXCEPT !.cache = LRUSet(@, q, top_k, f.results, t).c]
                    ELSE f.sem,
                    ExpansionTop(AboveThreshold(f.results, SemanticThreshold), top_k),
                    "none")

\* SemanticRetriever.retrieve_with_expansion(query, top_k, use_cache=use_cache)
RetrieveWithExpansion(sem, disk, q, top_k, use_cache, t) ==
    IF sem.documents = <<>> THEN SemOutcome([sem EXCEPT !.model = TRUE], <<>>, "none")
    ELSE ExpansionFinish(ExpansionLoop([sem EXCEPT !.model = TRUE], disk, ExpandQuery(q), top_k,
                                       use_cache, t, <<>>),
                         q, top_k, use_cache, t)

\* A SemanticRetriever (in a hybrid retriever) whose index was just built.
InitSemantic ==
    /\ now = 0
    /\ steps = 0
    /\ cfg = Config(TRUE, FALSE)
    /\ corpus \in Corpora \ {<<>>}
    /\ w = HybridBuild(NewWorld(cfg, NoDisk), corpus)
    /\ last = NoCall
    /\ CacheIdle
    /\ PureIdle

\* The call on the semantic retriever returns (or raises) s.
SemReturns(s, call) ==
    /\ Step
    /\ w' = [w EXCEPT !.sem = s.sem]
    /\ last' = [call EXCEPT !.ret = s.results, !.err = s.err]
    /\ UNCHANGED <<now, corpus>>

SemRetrieve(q, k) ==
    SemReturns(SemanticRetrieve(w.sem, w.disk, q, k, now),
               [NoCall EXCEPT !.op = "sem_retrieve", !.q = q, !.k = k, !.use_cache = TRUE])

SemExpand(q, k, use_cache) ==
    SemReturns(RetrieveWithExpansion(w.sem, w.disk, q, k, use_cache, now),
               [NoCall EXCEPT !.op = "sem_expand", !.q = q, !.k = k, !.use_cache = use_cache])

NextSemantic ==
    \/ \E q \in Queries, k \in TopKs : SemRetrieve(q, k)
    \/ \E q \in Queries, k \in TopKs, c \in BOOLEAN : SemExpand(q, k, c)
    \/ Tick

SpecSemantic == InitSemantic /\ [][NextSemantic]_vars

\* C22: after any retrieve and retrieve_with_expansion calls on one
\* SemanticRetriever, a retrieve(query, top_k) that returns gives at most top_k
\* results, no chunk id twice, in descending order of similarity.
C22_RetrieveTopKAfterExpansion ==
    (last.op = "sem_retrieve" /\ last.err = "none")
    => /\ Len(last.ret) <= last.k
       /\ \A i, j \in 1..Len(last.ret) :
             i < j => /\ last.ret[i].id # last.ret[j].id
                      /\ last.ret[i].score >= last.ret[j].score

\* ------------------------------------------------ reranking in the hybrid

\* C23: a fusing retrieve with reranking enabled and the cross-encoder loaded
\* returns the fused candidates re-scored by the cross-encoder, in descending order
\* of that score, so that its order differs from the fused-score order wherever the
\* two scores disagree.
C23_RerankReordersFused ==
    (last.op = "retrieve" /\ last.err = "none" /\ "rerank" \in Events(last) /\ w.reranker.model)
    => \A i, j \in 1..Len(last.ret) :
          i < j => RerankScore(last.q, last.ret[i].id) >= RerankScore(last.q, last.ret[j].id)

\* What the code does instead: a retrieve that reaches the reranker returns the
\* fused-score order, the list the same call returns with reranking disabled.
RerankLeavesFusedOrder ==
    (last.op = "retrieve" /\ last.err = "none" /\ "rerank" \in Events(last))
    => last.ret = FusedTop(last.tr.smap, last.k)

\* ------------------------------------------------------ close and reload

\* C24: close and reload return without raising in every configuration, the
\* keyword-only one (no semantic retriever) included.
C24_CloseAndReloadNeverRaise ==
    (last.op \in {"close", "reload"}) => last.err = "none"

\* C25: after reload returned normally the manager is initialized, and the next
\* facade retrieve, whatever its arguments, neither loads nor builds the index.
C25_ReloadLeavesInitialized ==
    (last.op = "reload" /\ last.err = "none")
    => /\ w.initialized
       /\ \A call \in Calls(now) :
             Range(FacadeRetrieve(w, cfg, corpus, call).tr.ev) \cap {"load", "build"} = {}

====
